---- MODULE Spec2Model ----
(***************************************************************************)
(* Context compression subsystem of rig-core (src/compression): the token  *)
(* estimator and the three compression strategies, TruncationCompressor,   *)
(* SlidingWindowCompressor and SummarizingCompressor (compress and         *)
(* compress_async).                                                        *)
(*                                                                         *)
(* A message is a record: pos is its position in the caller's history (a   *)
(* ghost field the code never reads; 0 for the synthetic briefing), role   *)
(* its tag, bytes the byte length of its single Text part (text.len()),    *)
(* and briefing tells the synthetic briefing message built by              *)
(* compress_async from the messages of the caller.                         *)
(***************************************************************************)
EXTENDS Integers, Sequences, FiniteSets, TLC

\* ---------------------------------------------------------------- bounds
\* Longest history drawn as input.
MaxLen == 4
\* Largest min_preserve / preserve_first / min_recent / preserve_recent drawn.
MaxPreserve == 2

\* Byte lengths of message texts: 0, 153 and 326 bytes cost 0, 45 and 96
\* tokens, so single messages cost 4, 49 and 100 tokens.
TextLens == {0, 153, 326}
\* Token budgets handed to compress.
Budgets == {0, 4, 8, 53, 57, 100, 108, 157, 208, 1000}
\* Byte lengths of the texts the summarizer may answer with.
SummaryLens == {0, 17, 200, 340}
\* Error texts the summarizer may fail with.
SummarizerErrors == {"timeout", "HTTP 500"}

\* ------------------------------------------------------------- estimator
MESSAGE_OVERHEAD == 4

\* The middle segment is summarized only from this many estimated tokens on.
MIN_MIDDLE_TOKENS == 100

\* Byte lengths of the briefing template before and after the summary.
BRIEFING_HEADER_LEN == 106
BRIEFING_FOOTER_LEN == 52

Min(a, b) == IF a <= b THEN a ELSE b

saturating_sub(a, b) == IF a >= b THEN a - b ELSE 0

\* (text.len() as f32 / 3.4).ceil(): for the lengths of this model (far below
\* 2^20 tokens) the f32 quotient rounds up to the exact ceil(10 * len / 34).
estimate_tokens(len) ==
    IF len = 0 THEN 0 ELSE (10 * len + 33) \div 34

\* A message is one Text part of m.bytes bytes, or (when it has a tool field)
\* one ToolCall part, costing its name (m.label bytes) plus its arguments
\* (m.bytes), or one ToolResult part, costing its id (m.label bytes) plus its
\* text (m.bytes).
estimate_message_tokens(m) ==
    IF "tool" \in DOMAIN m
    THEN estimate_tokens(m.label) + estimate_tokens(m.bytes) + MESSAGE_OVERHEAD
    ELSE estimate_tokens(m.bytes) + MESSAGE_OVERHEAD

RECURSIVE estimate_messages_tokens(_)
estimate_messages_tokens(ms) ==
    IF ms = << >> THEN 0
    ELSE estimate_message_tokens(Head(ms)) + estimate_messages_tokens(Tail(ms))

\* ---------------------------------------------------------------- slices
\* messages[from..to) with 0-based bounds, as Rust slices and take/skip do.
Slice(ms, from, to) == SubSeq(ms, from + 1, to)

\* messages.iter().take(n)
Take(ms, n) == Slice(ms, 0, Min(n, Len(ms)))

\* messages.iter().skip(n)
Skip(ms, n) == Slice(ms, Min(n, Len(ms)), Len(ms))

\* ------------------------------------------------------------- messages
UserOrAssistant(pos) == IF pos % 2 = 1 THEN "user" ELSE "assistant"

Message(pos, bytes) ==
    [pos |-> pos, role |-> UserOrAssistant(pos), bytes |-> bytes, briefing |-> FALSE]

\* Mutant: the summary is injected bare, without the briefing delimiters.
briefing_message_unwrapped(summary) ==
    [pos |-> 0, role |-> "user", bytes |-> summary, briefing |-> TRUE]

\* Message::user(format!("**[CONTEXT CONTINUITY BRIEFING]**...{}...", summary))
briefing_message(summary) ==
    [pos |-> 0, role |-> "user",
     bytes |-> BRIEFING_HEADER_LEN + summary + BRIEFING_FOOTER_LEN,
     briefing |-> TRUE]

Histories ==
    UNION { { [i \in 1..n |-> Message(i, f[i])] : f \in [1..n -> TextLens] } :
            n \in 0..MaxLen }

\* Message::Assistant with one ToolCall part: id call_id, a function name of
\* `name` bytes and serialized arguments of `arguments` bytes.
ToolCallMessage(pos, call_id, name, arguments) ==
    [pos |-> pos, role |-> "assistant", bytes |-> arguments, briefing |-> FALSE,
     tool |-> "call", tool_id |-> call_id, label |-> name]

\* Message::User with one ToolResult part answering the call call_id: an id
\* of `id` bytes and a text of `text` bytes.
ToolResultMessage(pos, call_id, id, text) ==
    [pos |-> pos, role |-> "user", bytes |-> text, briefing |-> FALSE,
     tool |-> "result", tool_id |-> call_id, label |-> id]

\* Histories with one tool call at position p answered at position p + 1: the
\* call of "read_file" (9 bytes) with id "call_1" (6 bytes).
ToolHistories ==
    UNION { { [i \in 1..n |->
                 IF i = p THEN ToolCallMessage(i, "call_1", 9, f[i])
                 ELSE IF i = p + 1
                      THEN ToolResultMessage(i, "call_1", 6, f[i])
                      ELSE Message(i, f[i])] :
              f \in [1..n -> TextLens], p \in 1..(n - 1) } :
            n \in 2..MaxLen }

Preserves == 0..MaxPreserve

\* The compressor under test, as constructed: a TruncationCompressor, a
\* SlidingWindowCompressor or a SummarizingCompressor with its settings (the
\* fields of the other strategies are 0).
Compressors ==
    { [kind |-> "Truncation", min_preserve |-> n, preserve_first |-> 0,
       min_recent |-> 0, preserve_recent |-> 0] : n \in Preserves }
    \cup
    { [kind |-> "SlidingWindow", min_preserve |-> 0, preserve_first |-> f,
       min_recent |-> t, preserve_recent |-> 0] : f \in Preserves, t \in Preserves }
    \cup
    { [kind |-> "Summarizing", min_preserve |-> 0, preserve_first |-> f,
       min_recent |-> 0, preserve_recent |-> t] : f \in Preserves, t \in Preserves }

\* Result<Vec<Message>, CompressionError>; an error text is kept as the
\* sequence of the pieces format! joins.
NoError == [variant |-> "none", text |-> << >>]
Ok(ms) == [status |-> "ok", msgs |-> ms, err |-> NoError]
Err(e) == [status |-> "err", msgs |-> << >>, err |-> e]
NoResult == [status |-> "none", msgs |-> << >>, err |-> NoError]
CompressionFailed(text) == [variant |-> "CompressionFailed", text |-> text]

\* ------------------------------------------------- TruncationCompressor
\* Mutant: a suffix that costs exactly the budget is taken not to fit.
RECURSIVE truncation_scan_strict(_, _, _, _)
truncation_scan_strict(messages, max_tokens, start_idx, max_start) ==
    IF start_idx < max_start
    THEN IF estimate_messages_tokens(Slice(messages, start_idx, Len(messages)))
              < max_tokens
         THEN start_idx
         ELSE truncation_scan_strict(messages, max_tokens, start_idx + 1, max_start)
    ELSE start_idx

\* The while loop of compress: the first start_idx below max_start whose
\* suffix fits, else max_start.
RECURSIVE truncation_scan(_, _, _, _)
truncation_scan(messages, max_tokens, start_idx, max_start) ==
    IF start_idx < max_start
    THEN IF estimate_messages_tokens(Slice(messages, start_idx, Len(messages)))
              <= max_tokens
         THEN start_idx
         ELSE truncation_scan(messages, max_tokens, start_idx + 1, max_start)
    ELSE start_idx

\* Mutant: a suffix that still exceeds the budget is reported as an error.
truncation_compress_fails_over_budget(c, messages, max_tokens) ==
    IF messages = << >> THEN Ok(messages)
    ELSE IF estimate_messages_tokens(messages) <= max_tokens THEN Ok(messages)
    ELSE LET max_start == saturating_sub(Len(messages), c.min_preserve)
             start_idx == truncation_scan(messages, max_tokens, 0, max_start)
         IN  IF estimate_messages_tokens(Skip(messages, start_idx)) > max_tokens
             THEN Err(CompressionFailed(<< "budget cannot be met" >>))
             ELSE Ok(Skip(messages, start_idx))

\* Mutant: the scan stops one message short of the preserve bound.
truncation_compress_stops_early(c, messages, max_tokens) ==
    IF messages = << >> THEN Ok(messages)
    ELSE IF estimate_messages_tokens(messages) <= max_tokens THEN Ok(messages)
    ELSE LET max_start ==
                 saturating_sub(saturating_sub(Len(messages), c.min_preserve), 1)
             start_idx == truncation_scan(messages, max_tokens, 0, max_start)
         IN  Ok(Skip(messages, start_idx))

\* Mutant: the scan is bounded by the length, not by len - min_preserve.
truncation_compress_no_preserve(c, messages, max_tokens) ==
    IF messages = << >> THEN Ok(messages)
    ELSE IF estimate_messages_tokens(messages) <= max_tokens THEN Ok(messages)
    ELSE LET max_start == Len(messages)
             start_idx == truncation_scan(messages, max_tokens, 0, max_start)
         IN  Ok(Skip(messages, start_idx))

truncation_compress(c, messages, max_tokens) ==
    IF messages = << >> THEN Ok(messages)
    ELSE IF estimate_messages_tokens(messages) <= max_tokens THEN Ok(messages)
    ELSE LET max_start == saturating_sub(Len(messages), c.min_preserve)
             start_idx == truncation_scan(messages, max_tokens, 0, max_start)
         IN  Ok(Skip(messages, start_idx))

\* ---------------------------------------------- SlidingWindowCompressor
\* The for loop of compress: the first start in middle_start..middle_end whose
\* slice fits the remaining budget; middle_window_start stays at its initial
\* value, middle_start, when no slice fits.
\* Mutant: the scan keeps the shortest fitting suffix of the middle.
sliding_window_scan_shortest(messages, remaining_budget, start, middle_end, middle_window_start) ==
    LET fitting == { k \in start..(middle_end - 1) :
                       estimate_messages_tokens(Slice(messages, k, middle_end))
                           <= remaining_budget }
    IN  IF fitting # {}
        THEN CHOOSE k \in fitting : \A j \in fitting : j <= k
        ELSE middle_window_start

RECURSIVE sliding_window_scan(_, _, _, _, _)
sliding_window_scan(messages, remaining_budget, start, middle_end, middle_window_start) ==
    IF start < middle_end
    THEN IF estimate_messages_tokens(Slice(messages, start, middle_end))
              <= remaining_budget
         THEN start
         ELSE sliding_window_scan(messages, remaining_budget, start + 1,
                                  middle_end, middle_window_start)
    ELSE middle_window_start

\* Mutant: the check that the preserved messages fit is missing.
sliding_window_compress_no_fit_check(c, messages, max_tokens) ==
    IF messages = << >> THEN Ok(messages)
    ELSE IF estimate_messages_tokens(messages) <= max_tokens THEN Ok(messages)
    ELSE LET total == Len(messages)
             must_keep_start == Min(c.preserve_first, total)
             must_keep_end ==
                 Min(c.min_recent, saturating_sub(total, must_keep_start))
             preserved_start == Take(messages, must_keep_start)
             preserved_end == Skip(messages, saturating_sub(total, must_keep_end))
             preserved_tokens == estimate_messages_tokens(preserved_start)
                                 + estimate_messages_tokens(preserved_end)
             middle_start == must_keep_start
             middle_end == saturating_sub(total, must_keep_end)
             remaining_budget == saturating_sub(max_tokens, preserved_tokens)
             middle_window_start ==
                 sliding_window_scan(messages, remaining_budget, middle_start,
                                     middle_end, middle_start)
         IN  IF middle_start >= middle_end
             THEN Ok(preserved_start \o preserved_end)
             ELSE Ok(preserved_start
                     \o Slice(messages, middle_window_start, middle_end)
                     \o preserved_end)

sliding_window_compress(c, messages, max_tokens) ==
    IF messages = << >> THEN Ok(messages)
    ELSE IF estimate_messages_tokens(messages) <= max_tokens THEN Ok(messages)
    ELSE LET total == Len(messages)
             must_keep_start == Min(c.preserve_first, total)
             must_keep_end ==
                 Min(c.min_recent, saturating_sub(total, must_keep_start))
             preserved_start == Take(messages, must_keep_start)
             preserved_end == Skip(messages, saturating_sub(total, must_keep_end))
             preserved_tokens == estimate_messages_tokens(preserved_start)
                                 + estimate_messages_tokens(preserved_end)
             middle_start == must_keep_start
             middle_end == saturating_sub(total, must_keep_end)
             remaining_budget == saturating_sub(max_tokens, preserved_tokens)
             middle_window_start ==
                 sliding_window_scan(messages, remaining_budget, middle_start,
                                     middle_end, middle_start)
         IN  IF preserved_tokens > max_tokens THEN Ok(preserved_end)
             ELSE IF middle_start >= middle_end
                  THEN Ok(preserved_start \o preserved_end)
                  ELSE Ok(preserved_start
                          \o Slice(messages, middle_window_start, middle_end)
                          \o preserved_end)

\* ------------------------------------------------ SummarizingCompressor
\* Mutant: the within-budget early return is missing.
summarizing_compress_no_budget_check(c, messages, max_tokens) ==
    IF messages = << >> THEN Ok(messages)
    ELSE LET total == Len(messages)
             preserve_start == Min(c.preserve_first, total)
             preserve_end ==
                 Min(c.preserve_recent, saturating_sub(total, preserve_start))
         IN  Ok(Take(messages, preserve_start)
                \o Skip(messages, saturating_sub(total, preserve_end)))

\* Mutant: preserve_end is not capped by what the head leaves over.
summarizing_compress_overlap(c, messages, max_tokens) ==
    IF messages = << >> THEN Ok(messages)
    ELSE IF estimate_messages_tokens(messages) <= max_tokens THEN Ok(messages)
    ELSE LET total == Len(messages)
             preserve_start == Min(c.preserve_first, total)
             preserve_end == Min(c.preserve_recent, total)
         IN  Ok(Take(messages, preserve_start)
                \o Skip(messages, saturating_sub(total, preserve_end)))

\* The synchronous compress of the ContextCompressor impl.
summarizing_compress(c, messages, max_tokens) ==
    IF messages = << >> THEN Ok(messages)
    ELSE IF estimate_messages_tokens(messages) <= max_tokens THEN Ok(messages)
    ELSE LET total == Len(messages)
             preserve_start == Min(c.preserve_first, total)
             preserve_end ==
                 Min(c.preserve_recent, saturating_sub(total, preserve_start))
         IN  Ok(Take(messages, preserve_start)
                \o Skip(messages, saturating_sub(total, preserve_end)))

\* The locals of compress_async that live across the await.
NoFrame ==
    [first_messages |-> << >>, last_messages |-> << >>,
     preserved_tokens |-> 0, middle_tokens |-> 0]

\* Mutant: the middle segment is summarized whatever its size.
compress_async_begin_no_threshold(c, messages, max_tokens) ==
    IF messages = << >>
    THEN [returned |-> TRUE, result |-> Ok(messages), frame |-> NoFrame]
    ELSE IF estimate_messages_tokens(messages) <= max_tokens
    THEN [returned |-> TRUE, result |-> Ok(messages), frame |-> NoFrame]
    ELSE LET total == Len(messages)
             preserve_start == Min(c.preserve_first, total)
             preserve_end ==
                 Min(c.preserve_recent, saturating_sub(total, preserve_start))
             first_messages == Take(messages, preserve_start)
             last_messages == Skip(messages, saturating_sub(total, preserve_end))
             middle_start == preserve_start
             middle_end == saturating_sub(total, preserve_end)
             middle_messages == Slice(messages, middle_start, middle_end)
             preserved_tokens == estimate_messages_tokens(first_messages)
                                 + estimate_messages_tokens(last_messages)
             middle_tokens == estimate_messages_tokens(middle_messages)
         IN  IF middle_start >= middle_end
             THEN [returned |-> TRUE, result |-> Ok(first_messages \o last_messages),
                   frame |-> NoFrame]
             ELSE [returned |-> FALSE, result |-> NoResult,
                   frame |-> [first_messages |-> first_messages,
                              last_messages |-> last_messages,
                              preserved_tokens |-> preserved_tokens,
                              middle_tokens |-> middle_tokens]]

\* compress_async up to the call of generate_summary: either it returns
\* (returned = TRUE, with result) or it reaches the await with its frame.
compress_async_begin(c, messages, max_tokens) ==
    IF messages = << >>
    THEN [returned |-> TRUE, result |-> Ok(messages), frame |-> NoFrame]
    ELSE IF estimate_messages_tokens(messages) <= max_tokens
    THEN [returned |-> TRUE, result |-> Ok(messages), frame |-> NoFrame]
    ELSE LET total == Len(messages)
             preserve_start == Min(c.preserve_first, total)
             preserve_end ==
                 Min(c.preserve_recent, saturating_sub(total, preserve_start))
             first_messages == Take(messages, preserve_start)
             last_messages == Skip(messages, saturating_sub(total, preserve_end))
             middle_start == preserve_start
             middle_end == saturating_sub(total, preserve_end)
             middle_messages == Slice(messages, middle_start, middle_end)
             preserved_tokens == estimate_messages_tokens(first_messages)
                                 + estimate_messages_tokens(last_messages)
             middle_tokens == estimate_messages_tokens(middle_messages)
         IN  IF middle_start >= middle_end
             THEN [returned |-> TRUE, result |-> Ok(first_messages \o last_messages),
                   frame |-> NoFrame]
             ELSE IF middle_tokens < MIN_MIDDLE_TOKENS
             THEN [returned |-> TRUE, result |-> Ok(first_messages \o last_messages),
                   frame |-> NoFrame]
             ELSE [returned |-> FALSE, result |-> NoResult,
                   frame |-> [first_messages |-> first_messages,
                              last_messages |-> last_messages,
                              preserved_tokens |-> preserved_tokens,
                              middle_tokens |-> middle_tokens]]

\* Mutant: a summary that does not fit is reported as an error.
compress_async_resume_rejects_large(fr, max_tokens, summary) ==
    LET summary_tokens == estimate_tokens(summary)
        total_after == fr.preserved_tokens + summary_tokens
    IN  IF total_after > max_tokens
        THEN Err(CompressionFailed(<< "Summary exceeds budget" >>))
        ELSE Ok(fr.first_messages \o << briefing_message(summary) >>
                \o fr.last_messages)

\* Mutant: the briefing is appended after the recent messages.
compress_async_resume_briefing_last(fr, max_tokens, summary) ==
    LET summary_tokens == estimate_tokens(summary)
        total_after == fr.preserved_tokens + summary_tokens
    IN  IF total_after > max_tokens
        THEN Ok(fr.first_messages \o fr.last_messages)
        ELSE Ok(fr.first_messages \o fr.last_messages
                \o << briefing_message(summary) >>)

\* compress_async after generate_summary returned Ok(summary), a text of
\* `summary` bytes.
compress_async_resume(fr, max_tokens, summary) ==
    LET summary_tokens == estimate_tokens(summary)
        total_after == fr.preserved_tokens + summary_tokens
    IN  IF total_after > max_tokens
        THEN Ok(fr.first_messages \o fr.last_messages)
        ELSE Ok(fr.first_messages \o << briefing_message(summary) >>
                \o fr.last_messages)

\* Mutant: the summarizer's error text is passed on without the prefix.
compress_async_fail_bare(e) ==
    Err(CompressionFailed(<< e >>))

\* The map_err of generate_summary followed by the ? of compress_async.
compress_async_fail(e) ==
    Err(CompressionFailed(<< "Summarization failed: ", e >>))

\* ----------------------------------------------------------------- state
VARIABLES
    compressor,  \* the compressor, as constructed
    messages,    \* the history handed to the call
    max_tokens,  \* the budget handed to the call
    pc,          \* "idle", "awaiting" (summarizer call in flight) or "done"
    entry,       \* the entry point called: "compress" or "compress_async"
    frame,       \* the locals of compress_async across the await
    reply,       \* what the summarizer answered
    prompts,     \* number of summarizer.prompt invocations so far
    result       \* what the call returned

\* State of the estimator's callers (ContextEstimate) and of the calls that
\* run concurrently on one SummarizingCompressor.
VARIABLES
    text,                  \* the &str handed to estimate_tokens
    system_prompt,         \* the system prompt handed to ContextEstimate::new
    tool_definitions_json, \* the tool definitions handed to ContextEstimate::new
    context_window,        \* the context window handed to ContextEstimate::new
    context,               \* the ContextEstimate built, or NoContext
    returned,              \* what the last estimator call returned
    calls,                 \* the concurrent calls, by caller
    cancels                \* number of calls cancelled so far

estimator_vars ==
    << text, system_prompt, tool_definitions_json, context_window, context, returned >>

concurrent_vars == << calls, cancels >>

NoContext == [none |-> TRUE]
NoReturn == [op |-> "none", arg |-> 0, value |-> 0]

\* No estimator call and no concurrent call is part of the behaviour.
EstimatorIdle ==
    /\ text = << >>
    /\ system_prompt = << >>
    /\ tool_definitions_json = << >>
    /\ context_window = 0
    /\ context = NoContext
    /\ returned = NoReturn

ConcurrentIdle ==
    /\ calls = << >>
    /\ cancels = 0

\* State of one StreamBytesCounter and of the streams and callers sharing it.
VARIABLES
    counter,    \* the AtomicUsize behind the StreamBytesCounter
    streams,    \* the items each ByteCountingStream's inner stream still holds
    delivered,  \* byte length of the Ok chunks yielded so far
    added,      \* bytes handed to add so far
    reclaimed,  \* sum of the values reset has returned so far
    ops,        \* number of add and reset calls so far
    observed    \* the last operation on the counter and what it saw

stream_vars == << counter, streams, delivered, added, reclaimed, ops, observed >>

NoObservation == [op |-> "none", before |-> 0, value |-> 0, after |-> 0]

\* No stream and no counter is part of the behaviour.
StreamIdle ==
    /\ counter = 0
    /\ streams = << >>
    /\ delivered = 0
    /\ added = 0
    /\ reclaimed = 0
    /\ ops = 0
    /\ observed = NoObservation

vars ==
    << compressor, messages, max_tokens, pc, entry, frame, reply, prompts, result,
       estimator_vars, concurrent_vars, stream_vars >>

NoReply == [status |-> "none", summary |-> 0, error |-> ""]

Init ==
    /\ compressor \in Compressors
    /\ messages \in Histories
    /\ max_tokens \in Budgets
    /\ pc = "idle"
    /\ entry = "none"
    /\ frame = NoFrame
    /\ reply = NoReply
    /\ prompts = 0
    /\ result = NoResult
    /\ EstimatorIdle
    /\ ConcurrentIdle
    /\ StreamIdle

Return(e, r) ==
    /\ pc' = "done"
    /\ entry' = e
    /\ result' = r
    /\ UNCHANGED << compressor, messages, max_tokens, frame, reply, prompts >>
    /\ UNCHANGED << estimator_vars, concurrent_vars, stream_vars >>

TruncationCompress ==
    /\ pc = "idle"
    /\ compressor.kind = "Truncation"
    /\ Return("compress", truncation_compress(compressor, messages, max_tokens))

SlidingWindowCompress ==
    /\ pc = "idle"
    /\ compressor.kind = "SlidingWindow"
    /\ Return("compress", sliding_window_compress(compressor, messages, max_tokens))

SummarizingCompress ==
    /\ pc = "idle"
    /\ compressor.kind = "Summarizing"
    /\ Return("compress", summarizing_compress(compressor, messages, max_tokens))

\* compress_async from its call to its return or to the await of the
\* summarizer's prompt (generate_summary issues the prompt).
CompressAsync ==
    /\ pc = "idle"
    /\ compressor.kind = "Summarizing"
    /\ LET b == compress_async_begin(compressor, messages, max_tokens)
       IN  /\ entry' = "compress_async"
           /\ pc' = IF b.returned THEN "done" ELSE "awaiting"
           /\ result' = b.result
           /\ frame' = b.frame
           /\ prompts' = IF b.returned THEN prompts ELSE prompts + 1
    /\ UNCHANGED << compressor, messages, max_tokens, reply >>
    /\ UNCHANGED << estimator_vars, concurrent_vars, stream_vars >>

\* The prompt resolves to Ok(summary) and compress_async runs to its return.
SummarizerReplies ==
    /\ pc = "awaiting"
    /\ \E summary \in SummaryLens :
          /\ reply' = [status |-> "ok", summary |-> summary, error |-> ""]
          /\ result' = compress_async_resume(frame, max_tokens, summary)
    /\ pc' = "done"
    /\ UNCHANGED << compressor, messages, max_tokens, entry, frame, prompts >>
    /\ UNCHANGED << estimator_vars, concurrent_vars, stream_vars >>

\* Mutant: a failed prompt is issued again instead of being reported.
SummarizerFailsAndRetries ==
    /\ pc = "awaiting"
    /\ prompts < 3
    /\ \E e \in SummarizerErrors :
          reply' = [status |-> "err", summary |-> 0, error |-> e]
    /\ prompts' = prompts + 1
    /\ UNCHANGED << compressor, messages, max_tokens, pc, entry, frame, result >>
    /\ UNCHANGED << estimator_vars, concurrent_vars, stream_vars >>

\* The prompt resolves to Err(e) and compress_async returns the mapped error.
SummarizerFails ==
    /\ pc = "awaiting"
    /\ \E e \in SummarizerErrors :
          /\ reply' = [status |-> "err", summary |-> 0, error |-> e]
          /\ result' = compress_async_fail(e)
    /\ pc' = "done"
    /\ UNCHANGED << compressor, messages, max_tokens, entry, frame, prompts >>
    /\ UNCHANGED << estimator_vars, concurrent_vars, stream_vars >>

Next ==
    \/ TruncationCompress
    \/ SlidingWindowCompress
    \/ SummarizingCompress
    \/ CompressAsync
    \/ SummarizerReplies
    \/ SummarizerFails

Spec == Init /\ [][Next]_vars

\* The same calls on histories that hold a tool call and its result.
InitTools ==
    /\ compressor \in Compressors
    /\ messages \in ToolHistories
    /\ max_tokens \in Budgets
    /\ pc = "idle"
    /\ entry = "none"
    /\ frame = NoFrame
    /\ reply = NoReply
    /\ prompts = 0
    /\ result = NoResult
    /\ EstimatorIdle
    /\ ConcurrentIdle
    /\ StreamIdle

SpecTools == InitTools /\ [][Next]_vars

\* ------------------------------------------- estimator and ContextEstimate
\* A text is the sequence of the UTF-8 widths (1..4 bytes) of its characters.
\* Longest text drawn character by character.
MaxChars == 3

\* n ASCII characters, as "a".repeat(n).
Ascii(n) == [i \in 1..n |-> 1]

\* str::len(): the length of a text in bytes.
RECURSIVE str_len(_)
str_len(t) ==
    IF Len(t) = 0 THEN 0
    ELSE IF Len(t) = 1 THEN t[1]
    ELSE LET half == Len(t) \div 2
         IN  str_len(SubSeq(t, 1, half)) + str_len(SubSeq(t, half + 1, Len(t)))

Texts ==
    UNION { [1..n -> 1..4] : n \in 0..MaxChars }
    \cup { Ascii(5), Ascii(40), Ascii(340) }

SystemPrompts == { << >>, Ascii(28), << 2, 3 >> }
ToolDefinitions == { << >>, Ascii(50) }
ContextWindows == {0, 7, 2000, 200000}
Thresholds == {0, 80, 100, 101, 120}

\* The histories of the estimator's tests: none, "Hello" / "Hi there!", and
\* one user message of 6800 bytes.
EstimateHistories ==
    { << >>, << Message(1, 5), Message(2, 9) >>, << Message(1, 6800) >> }

\* Mutant: usage_percent is rounded to the nearest percent.
ContextEstimate_new_rounded(sp, td, ms, cw) ==
    LET system_prompt_tokens == estimate_tokens(str_len(sp))
        tool_definitions_tokens == estimate_tokens(str_len(td))
        messages_tokens == estimate_messages_tokens(ms)
        total_tokens ==
            system_prompt_tokens + tool_definitions_tokens + messages_tokens
    IN  [system_prompt_tokens |-> system_prompt_tokens,
         tool_definitions_tokens |-> tool_definitions_tokens,
         messages_tokens |-> messages_tokens,
         total_tokens |-> total_tokens,
         context_window |-> cw,
         usage_percent |->
             IF cw > 0 THEN (total_tokens * 100 + cw \div 2) \div cw ELSE 0]

\* ContextEstimate::new. The casts of usage_percent (as u64, as u32) change
\* nothing below 2^32 percent, which is where this model's inputs stay.
ContextEstimate_new(sp, td, ms, cw) ==
    LET system_prompt_tokens == estimate_tokens(str_len(sp))
        tool_definitions_tokens == estimate_tokens(str_len(td))
        messages_tokens == estimate_messages_tokens(ms)
        total_tokens ==
            system_prompt_tokens + tool_definitions_tokens + messages_tokens
    IN  [system_prompt_tokens |-> system_prompt_tokens,
         tool_definitions_tokens |-> tool_definitions_tokens,
         messages_tokens |-> messages_tokens,
         total_tokens |-> total_tokens,
         context_window |-> cw,
         usage_percent |-> IF cw > 0 THEN (total_tokens * 100) \div cw ELSE 0]

\* Mutant: compression is needed only when usage exceeds the threshold.
needs_compression_strict(self, threshold_percent) ==
    self.usage_percent > threshold_percent

needs_compression(self, threshold_percent) ==
    self.usage_percent >= threshold_percent

\* The u64 product does not overflow for this model's inputs.
threshold_tokens(self, threshold_percent) ==
    (self.context_window * threshold_percent) \div 100

\* Either estimate_tokens is called on a drawn text, or a ContextEstimate is
\* built from drawn inputs and queried.
InitEstimate ==
    /\ \/ /\ text \in Texts
          /\ system_prompt = << >>
          /\ tool_definitions_json = << >>
          /\ messages = << >>
          /\ context_window = 0
       \/ /\ text = << >>
          /\ system_prompt \in SystemPrompts
          /\ tool_definitions_json \in ToolDefinitions
          /\ messages \in EstimateHistories
          /\ context_window \in ContextWindows
    /\ context = NoContext
    /\ returned = NoReturn
    /\ compressor \in { c \in Compressors : c.kind = "Truncation" /\ c.min_preserve = 1 }
    /\ max_tokens = 0
    /\ pc = "idle"
    /\ entry = "none"
    /\ frame = NoFrame
    /\ reply = NoReply
    /\ prompts = 0
    /\ result = NoResult
    /\ ConcurrentIdle
    /\ StreamIdle

compression_vars ==
    << compressor, messages, max_tokens, pc, entry, frame, reply, prompts, result >>

EstimateTokens ==
    /\ returned' = [op |-> "estimate_tokens", arg |-> 0,
                    value |-> estimate_tokens(str_len(text))]
    /\ UNCHANGED << text, system_prompt, tool_definitions_json, context_window,
                    context, compression_vars, concurrent_vars,
                    stream_vars >>

ContextEstimateNew ==
    /\ context' = ContextEstimate_new(system_prompt, tool_definitions_json,
                                      messages, context_window)
    /\ UNCHANGED << text, system_prompt, tool_definitions_json, context_window,
                    returned, compression_vars, concurrent_vars,
                    stream_vars >>

NeedsCompression ==
    /\ "usage_percent" \in DOMAIN context
    /\ \E threshold_percent \in Thresholds :
          returned' = [op |-> "needs_compression", arg |-> threshold_percent,
                       value |-> needs_compression(context, threshold_percent)]
    /\ UNCHANGED << text, system_prompt, tool_definitions_json, context_window,
                    context, compression_vars, concurrent_vars,
                    stream_vars >>

ThresholdTokens ==
    /\ "usage_percent" \in DOMAIN context
    /\ \E threshold_percent \in Thresholds :
          returned' = [op |-> "threshold_tokens", arg |-> threshold_percent,
                       value |-> threshold_tokens(context, threshold_percent)]
    /\ UNCHANGED << text, system_prompt, tool_definitions_json, context_window,
                    context, compression_vars, concurrent_vars,
                    stream_vars >>

NextEstimate ==
    \/ EstimateTokens
    \/ ContextEstimateNew
    \/ NeedsCompression
    \/ ThresholdTokens

SpecEstimate == InitEstimate /\ [][NextEstimate]_vars

\* ------------------------------------------------ compressing twice
\* ContextCompressor::compress, dispatched on the strategy.
compress(c, ms, budget) ==
    CASE c.kind = "Truncation" -> truncation_compress(c, ms, budget)
      [] c.kind = "SlidingWindow" -> sliding_window_compress(c, ms, budget)
      [] c.kind = "Summarizing" -> summarizing_compress(c, ms, budget)

\* The caller hands the history a synchronous compress returned to the same
\* compressor again, with the same budget.
CompressAgain ==
    /\ pc = "done"
    /\ entry = "compress"
    /\ result.status = "ok"
    /\ pc' = "again"
    /\ messages' = result.msgs
    /\ result' = compress(compressor, result.msgs, max_tokens)
    /\ UNCHANGED << compressor, max_tokens, entry, frame, reply, prompts >>
    /\ UNCHANGED << estimator_vars, concurrent_vars, stream_vars >>

NextTwice ==
    \/ TruncationCompress
    \/ SlidingWindowCompress
    \/ SummarizingCompress
    \/ CompressAgain

SpecTwice == Init /\ [][NextTwice]_vars

\* ----------------------------------------- format_messages_for_summary
\* The byte lengths above which a tool result's text and a tool call's
\* arguments are cut.
TOOL_RESULT_LIMIT == 2000
TOOL_ARGUMENTS_LIMIT == 500

\* Texts around the two limits: ASCII up to just below or at a limit, then
\* nothing, ASCII or multi-byte characters.
FormatTexts ==
    Texts
    \cup { Ascii(n) \o tail :
             n \in { TOOL_ARGUMENTS_LIMIT - 1, TOOL_ARGUMENTS_LIMIT,
                     TOOL_RESULT_LIMIT - 1, TOOL_RESULT_LIMIT },
             tail \in { << >>, << 1 >>, << 1, 1 >>, << 2 >>, << 2, 2 >>,
                        << 4 >>, << 1, 3 >> } }
    \cup { [i \in 1..(TOOL_RESULT_LIMIT \div 2 + 1) |-> 2] }

\* The number of leading characters of t that lie wholly within its first
\* idx bytes, searched between lo and hi.
RECURSIVE chars_within(_, _, _, _)
chars_within(t, idx, lo, hi) ==
    IF lo >= hi THEN lo
    ELSE LET mid == (lo + hi + 1) \div 2
         IN  IF str_len(SubSeq(t, 1, mid)) <= idx
             THEN chars_within(t, idx, mid, hi)
             ELSE chars_within(t, idx, lo, mid - 1)

\* str::is_char_boundary.
is_char_boundary(t, idx) ==
    str_len(SubSeq(t, 1, chars_within(t, idx, 0, Len(t)))) = idx

\* What rendering a text gives: the thread panicked, or the characters kept
\* and the marker appended to them.
Panicked == [panicked |-> TRUE, kept |-> << >>, marker |-> ""]
Rendered(t, marker) == [panicked |-> FALSE, kept |-> t, marker |-> marker]

\* &t[..limit]: the first limit bytes of t; panics when limit is past the end
\* or inside a character.
slice_to(t, limit, marker) ==
    IF limit <= str_len(t) /\ is_char_boundary(t, limit)
    THEN Rendered(SubSeq(t, 1, chars_within(t, limit, 0, Len(t))), marker)
    ELSE Panicked

\* Mutant: the cut moves back to the nearest character boundary.
format_truncated_floor(t, limit, marker) ==
    IF str_len(t) > limit
    THEN Rendered(SubSeq(t, 1, chars_within(t, limit, 0, Len(t))), marker)
    ELSE Rendered(t, "")

\* if text.len() > limit { format!("{}<marker>", &text[..limit]) } else { text }
format_truncated(t, limit, marker) ==
    IF str_len(t) > limit
    THEN slice_to(t, limit, marker)
    ELSE Rendered(t, "")

InitFormat ==
    /\ text \in FormatTexts
    /\ system_prompt = << >>
    /\ tool_definitions_json = << >>
    /\ messages = << >>
    /\ context_window = 0
    /\ context = NoContext
    /\ returned = NoReturn
    /\ compressor \in { c \in Compressors : c.kind = "Summarizing"
                                            /\ c.preserve_first = 1
                                            /\ c.preserve_recent = 2 }
    /\ max_tokens = 0
    /\ pc = "idle"
    /\ entry = "none"
    /\ frame = NoFrame
    /\ reply = NoReply
    /\ prompts = 0
    /\ result = NoResult
    /\ ConcurrentIdle
    /\ StreamIdle

\* format_messages_for_summary renders a tool result whose text is `text`.
FormatToolResult ==
    /\ returned' = [op |-> "tool_result", arg |-> TOOL_RESULT_LIMIT,
                    value |-> format_truncated(text, TOOL_RESULT_LIMIT,
                                               "...[truncated]")]
    /\ UNCHANGED << text, system_prompt, tool_definitions_json, context_window,
                    context, compression_vars, concurrent_vars, stream_vars >>

\* format_messages_for_summary renders a tool call whose arguments print as
\* `text`.
FormatToolCall ==
    /\ returned' = [op |-> "tool_call", arg |-> TOOL_ARGUMENTS_LIMIT,
                    value |-> format_truncated(text, TOOL_ARGUMENTS_LIMIT, "...")]
    /\ UNCHANGED << text, system_prompt, tool_definitions_json, context_window,
                    context, compression_vars, concurrent_vars, stream_vars >>

NextFormat == FormatToolResult \/ FormatToolCall

SpecFormat == InitFormat /\ [][NextFormat]_vars

\* ------------------------------------------------- StreamBytesCounter
\* ByteCountingStreams sharing the counter, and the add / reset calls made on
\* it, which the model caps.
MaxStreams == 2
MaxOps == 3
Streams == 1..MaxStreams

\* Items of an inner stream: Ok(bytes) of a length, or Err.
Chunk(n) == [ok |-> TRUE, len |-> n]
StreamError == [ok |-> FALSE, len |-> 0]

\* "hello", " ", "world"; a stream with an error between two chunks; an
\* empty stream.
StreamContents ==
    { << Chunk(5), Chunk(1), Chunk(5) >>,
      << Chunk(5), StreamError, Chunk(1) >>,
      << >> }
AddSizes == {0, 100}

\* AtomicUsize::fetch_add and swap: [new |-> the value stored,
\* old |-> the value returned].
fetch_add(value, n) == [new |-> value + n, old |-> value]
swap(value, n) == [new |-> n, old |-> value]

InitStream ==
    /\ counter = 0
    /\ streams \in [Streams -> StreamContents]
    /\ delivered = 0
    /\ added = 0
    /\ reclaimed = 0
    /\ ops = 0
    /\ observed = NoObservation
    /\ compressor = [kind |-> "Truncation", min_preserve |-> 1,
                     preserve_first |-> 0, min_recent |-> 0,
                     preserve_recent |-> 0]
    /\ messages = << >>
    /\ max_tokens = 0
    /\ pc = "idle"
    /\ entry = "none"
    /\ frame = NoFrame
    /\ reply = NoReply
    /\ prompts = 0
    /\ result = NoResult
    /\ EstimatorIdle
    /\ ConcurrentIdle

\* Mutant: the stream counts the chunks, not their bytes.
PollNextCountsChunks(s) ==
    /\ IF streams[s] = << >>
       THEN /\ UNCHANGED << counter, streams, delivered >>
            /\ observed' = [op |-> "end", before |-> counter, value |-> 0,
                            after |-> counter']
       ELSE LET item == Head(streams[s])
                a    == fetch_add(counter, 1)
            IN  /\ streams' = [streams EXCEPT ![s] = Tail(streams[s])]
                /\ IF item.ok
                   THEN /\ counter' = a.new
                        /\ delivered' = delivered + item.len
                        /\ observed' = [op |-> "chunk", before |-> counter,
                                        value |-> item.len, after |-> counter']
                   ELSE /\ UNCHANGED << counter, delivered >>
                        /\ observed' = [op |-> "err", before |-> counter,
                                        value |-> 0, after |-> counter']
    /\ UNCHANGED << added, reclaimed, ops, compression_vars, estimator_vars,
                    concurrent_vars >>

\* ByteCountingStream::poll_next on stream s: an Ok chunk is added to the
\* counter and passed on; an error and the end of the stream are passed on.
PollNext(s) ==
    /\ IF streams[s] = << >>
       THEN /\ UNCHANGED << counter, streams, delivered >>
            /\ observed' = [op |-> "end", before |-> counter, value |-> 0,
                            after |-> counter']
       ELSE LET item == Head(streams[s])
                a    == fetch_add(counter, item.len)
            IN  /\ streams' = [streams EXCEPT ![s] = Tail(streams[s])]
                /\ IF item.ok
                   THEN /\ counter' = a.new
                        /\ delivered' = delivered + item.len
                        /\ observed' = [op |-> "chunk", before |-> counter,
                                        value |-> item.len, after |-> counter']
                   ELSE /\ UNCHANGED << counter, delivered >>
                        /\ observed' = [op |-> "err", before |-> counter,
                                        value |-> 0, after |-> counter']
    /\ UNCHANGED << added, reclaimed, ops, compression_vars, estimator_vars,
                    concurrent_vars >>

\* StreamBytesCounter::add.
CounterAdd ==
    /\ ops < MaxOps
    /\ \E bytes \in AddSizes :
          /\ counter' = fetch_add(counter, bytes).new
          /\ added' = added + bytes
          /\ observed' = [op |-> "add", before |-> counter, value |-> bytes,
                          after |-> counter']
    /\ ops' = ops + 1
    /\ UNCHANGED << streams, delivered, reclaimed, compression_vars,
                    estimator_vars, concurrent_vars >>

\* StreamBytesCounter::reset.
CounterReset ==
    /\ ops < MaxOps
    /\ LET w == swap(counter, 0)
       IN  /\ counter' = w.new
           /\ reclaimed' = reclaimed + w.old
           /\ observed' = [op |-> "reset", before |-> counter, value |-> w.old,
                           after |-> counter']
    /\ ops' = ops + 1
    /\ UNCHANGED << streams, delivered, added, compression_vars,
                    estimator_vars, concurrent_vars >>

\* StreamBytesCounter::bytes_received.
BytesReceived ==
    /\ UNCHANGED << counter, streams, delivered, added, reclaimed, ops,
                    compression_vars, estimator_vars, concurrent_vars >>
    /\ observed' = [op |-> "bytes_received", before |-> counter,
                    value |-> counter, after |-> counter']

NextStream ==
    \/ \E s \in Streams : PollNext(s)
    \/ CounterAdd
    \/ CounterReset
    \/ BytesReceived

SpecStream == InitStream /\ [][NextStream]_vars

\* ------------------------------------- compressors built without settings
\* TruncationCompressor::new() and the derived Default::default(), which
\* gives every usize field its own default, 0.
TruncationCompressor_new ==
    [kind |-> "Truncation", min_preserve |-> 1, preserve_first |-> 0,
     min_recent |-> 0, preserve_recent |-> 0]
TruncationCompressor_default ==
    [kind |-> "Truncation", min_preserve |-> 0, preserve_first |-> 0,
     min_recent |-> 0, preserve_recent |-> 0]

\* SlidingWindowCompressor::new() and the derived Default::default().
SlidingWindowCompressor_new ==
    [kind |-> "SlidingWindow", min_preserve |-> 0, preserve_first |-> 0,
     min_recent |-> 2, preserve_recent |-> 0]
SlidingWindowCompressor_default ==
    [kind |-> "SlidingWindow", min_preserve |-> 0, preserve_first |-> 0,
     min_recent |-> 0, preserve_recent |-> 0]

InitDefaults ==
    /\ compressor \in { TruncationCompressor_new, TruncationCompressor_default,
                         SlidingWindowCompressor_new,
                         SlidingWindowCompressor_default }
    /\ messages \in Histories
    /\ max_tokens \in Budgets
    /\ pc = "idle"
    /\ entry = "none"
    /\ frame = NoFrame
    /\ reply = NoReply
    /\ prompts = 0
    /\ result = NoResult
    /\ EstimatorIdle
    /\ ConcurrentIdle
    /\ StreamIdle

NextDefaults == TruncationCompress \/ SlidingWindowCompress

SpecDefaults == InitDefaults /\ [][NextDefaults]_vars

\* ------------------------- concurrent calls on one SummarizingCompressor
\* Callers that share the compressor (&self) and its summarizer (Arc<P>).
MaxCalls == 2
Callers == 1..MaxCalls

\* Histories of 4 + 100 + 4 and of 49 + 100 + 4 estimated tokens; the first
\* fits the larger budget, the second fits neither.
ConcurrentHistories ==
    { << Message(1, 0), Message(2, 326), Message(3, 0) >>,
      << Message(1, 153), Message(2, 326), Message(3, 0) >> }
ConcurrentBudgets == {8, 108}

\* A call's own arguments, position, locals and result; epoch is the number
\* of cancellations before it started, overlapped tells that another call
\* was awaiting the summarizer when it started.
NewCall(ms, budget) ==
    [messages |-> ms, max_tokens |-> budget, pc |-> "idle", entry |-> "none",
     frame |-> NoFrame, reply |-> NoReply, result |-> NoResult,
     epoch |-> 0, overlapped |-> FALSE]

InitConcurrent ==
    /\ compressor \in { c \in Compressors : c.kind = "Summarizing" }
    /\ calls \in { [c \in Callers |-> NewCall(h[c], b[c])] :
                     h \in [Callers -> ConcurrentHistories],
                     b \in [Callers -> ConcurrentBudgets] }
    /\ cancels = 0
    /\ prompts = 0
    /\ messages = << >>
    /\ max_tokens = 0
    /\ pc = "idle"
    /\ entry = "none"
    /\ frame = NoFrame
    /\ reply = NoReply
    /\ result = NoResult
    /\ EstimatorIdle
    /\ StreamIdle

\* What a step of a concurrent call leaves alone: the compressor is borrowed
\* immutably, and the single-call state and the estimator are not involved.
ConcurrentFrame ==
    UNCHANGED << compressor, messages, max_tokens, pc, entry, frame, reply,
                 result, estimator_vars, stream_vars >>

Started(c, e) ==
    [calls[c] EXCEPT !.entry = e, !.epoch = cancels,
                     !.overlapped = \E d \in Callers : calls[d].pc = "awaiting"]

\* Caller c runs the synchronous compress.
CallCompress(c) ==
    /\ calls[c].pc = "idle"
    /\ calls' = [calls EXCEPT ![c] =
           [Started(c, "compress") EXCEPT
              !.pc = "done",
              !.result = summarizing_compress(compressor, calls[c].messages,
                                              calls[c].max_tokens)]]
    /\ UNCHANGED << prompts, cancels >>
    /\ ConcurrentFrame

\* Caller c runs compress_async to its return or to the await.
CallCompressAsync(c) ==
    /\ calls[c].pc = "idle"
    /\ LET b == compress_async_begin(compressor, calls[c].messages,
                                     calls[c].max_tokens)
       IN  /\ calls' = [calls EXCEPT ![c] =
                  [Started(c, "compress_async") EXCEPT
                     !.pc = IF b.returned THEN "done" ELSE "awaiting",
                     !.result = b.result,
                     !.frame = b.frame]]
           /\ prompts' = IF b.returned THEN prompts ELSE prompts + 1
    /\ UNCHANGED cancels
    /\ ConcurrentFrame

\* Mutant: the locals across the await are kept in one place shared by the
\* calls, so a resumed call continues with the frame of another call.
CallSummarizerRepliesSharedFrame(c) ==
    /\ calls[c].pc = "awaiting"
    /\ \E summary \in SummaryLens, d \in Callers :
          /\ calls[d].pc \in {"awaiting", "done"}
          /\ calls' = [calls EXCEPT ![c] =
                 [calls[c] EXCEPT
                    !.pc = "done",
                    !.reply = [status |-> "ok", summary |-> summary, error |-> ""],
                    !.result = compress_async_resume(calls[d].frame,
                                                     calls[c].max_tokens, summary)]]
    /\ UNCHANGED << prompts, cancels >>
    /\ ConcurrentFrame

\* The prompt of caller c resolves to Ok(summary) and its call returns.
CallSummarizerReplies(c) ==
    /\ calls[c].pc = "awaiting"
    /\ \E summary \in SummaryLens :
          calls' = [calls EXCEPT ![c] =
              [calls[c] EXCEPT
                 !.pc = "done",
                 !.reply = [status |-> "ok", summary |-> summary, error |-> ""],
                 !.result = compress_async_resume(calls[c].frame,
                                                  calls[c].max_tokens, summary)]]
    /\ UNCHANGED << prompts, cancels >>
    /\ ConcurrentFrame

\* The prompt of caller c resolves to Err(e) and its call returns the error.
CallSummarizerFails(c) ==
    /\ calls[c].pc = "awaiting"
    /\ \E e \in SummarizerErrors :
          calls' = [calls EXCEPT ![c] =
              [calls[c] EXCEPT
                 !.pc = "done",
                 !.reply = [status |-> "err", summary |-> 0, error |-> e],
                 !.result = compress_async_fail(e)]]
    /\ UNCHANGED << prompts, cancels >>
    /\ ConcurrentFrame

\* Mutant: a cancelled call hands out the head it had already collected.
CallCancelledPartial(c) ==
    /\ calls[c].pc = "awaiting"
    /\ calls' = [calls EXCEPT ![c] =
           [calls[c] EXCEPT !.pc = "cancelled",
                            !.result = Ok(calls[c].frame.first_messages)]]
    /\ cancels' = cancels + 1
    /\ UNCHANGED prompts
    /\ ConcurrentFrame

\* The host drops the future of caller c while the prompt is in flight: the
\* await is the only point where compress_async can be dropped half-way, its
\* locals are dropped with it and nothing is returned.
CallCancelled(c) ==
    /\ calls[c].pc = "awaiting"
    /\ calls' = [calls EXCEPT ![c] =
           [calls[c] EXCEPT !.pc = "cancelled", !.frame = NoFrame]]
    /\ cancels' = cancels + 1
    /\ UNCHANGED prompts
    /\ ConcurrentFrame

NextConcurrent ==
    \E c \in Callers :
        \/ CallCompress(c)
        \/ CallCompressAsync(c)
        \/ CallSummarizerReplies(c)
        \/ CallSummarizerFails(c)
        \/ CallCancelled(c)

SpecConcurrent == InitConcurrent /\ [][NextConcurrent]_vars

TypeOK ==
    /\ compressor \in Compressors
    /\ messages \in Histories
    /\ max_tokens \in Budgets
    /\ pc \in {"idle", "awaiting", "done"}
    /\ entry \in {"none", "compress", "compress_async"}
    /\ prompts \in Nat
    /\ result.status \in {"none", "ok", "err"}

\* ================================================================ claims
\* What the claims speak of, written from their wording.
Estimate(ms) == estimate_messages_tokens(ms)
OverBudget == Estimate(messages) > max_tokens
FirstN(H, n) == SubSeq(H, 1, n)
LastN(H, n) == SubSeq(H, Len(H) - n + 1, Len(H))
Called(kind, e) == pc # "idle" /\ compressor.kind = kind /\ entry = e

HeadLen == Min(compressor.preserve_first, Len(messages))
SWTailLen == Min(compressor.min_recent, Len(messages) - HeadLen)
SWHead == FirstN(messages, HeadLen)
SWTail == LastN(messages, SWTailLen)
SWMiddle == SubSeq(messages, HeadLen + 1, Len(messages) - SWTailLen)
SumTailLen == Min(compressor.preserve_recent, Len(messages) - HeadLen)
SumFirst == FirstN(messages, HeadLen)
SumLast == LastN(messages, SumTailLen)
SumMiddle == SubSeq(messages, HeadLen + 1, Len(messages) - SumTailLen)
Briefings(ms) == { i \in 1..Len(ms) : ms[i].briefing }

\* C1: every entry point returns Ok(H), the same messages in the same order,
\* when estimate_messages_tokens(H) <= B (the empty history included), and
\* compress_async then makes no summarizer call.
C1_IdentityWithinBudget ==
    (pc # "idle" /\ Estimate(messages) <= max_tokens)
        => /\ pc = "done"
           /\ result = Ok(messages)
           /\ prompts = 0

\* compress_async returned a history of two messages costing the budget exactly.
C1_Witness ==
    /\ Called("Summarizing", "compress_async")
    /\ Len(messages) = 2
    /\ Estimate(messages) = max_tokens
    /\ pc = "done"
    /\ result.msgs = messages

\* C2: the messages of a returned history other than the briefing are input
\* messages at strictly increasing input positions, and compress_async puts the
\* briefing after every kept head message and before every kept tail message.
C2_OrderingInvariant ==
    (pc = "done" /\ result.status = "ok")
        => LET R == result.msgs
           IN  /\ \A i \in 1..Len(R) :
                    ~R[i].briefing
                        => /\ R[i].pos \in 1..Len(messages)
                           /\ R[i] = messages[R[i].pos]
               /\ \A i, j \in 1..Len(R) :
                    (i < j /\ ~R[i].briefing /\ ~R[j].briefing)
                        => R[i].pos < R[j].pos
               /\ \A b \in Briefings(R) :
                    /\ entry = "compress_async"
                    /\ \A i \in 1..Len(R) :
                         /\ i < b => R[i].pos \in 1..HeadLen
                         /\ i > b => R[i].pos > Len(messages) - SumTailLen

\* compress_async returned a briefing between a kept head and a kept tail.
C2_Witness ==
    /\ Called("Summarizing", "compress_async")
    /\ pc = "done"
    /\ \E b \in Briefings(result.msgs) : 1 < b /\ b < Len(result.msgs)
    /\ Len(result.msgs) < Len(messages)

\* C3: TruncationCompressor.compress returns Ok(S) with S a suffix of H and
\* min(min_preserve, len(H)) <= len(S) <= len(H).
C3_TruncationSuffix ==
    Called("Truncation", "compress")
        => /\ result.status = "ok"
           /\ \E n \in 0..Len(messages) : result.msgs = LastN(messages, n)
           /\ Min(compressor.min_preserve, Len(messages)) <= Len(result.msgs)
           /\ Len(result.msgs) <= Len(messages)

\* Truncation stopped at the preserve bound with a suffix still over budget.
C3_Witness ==
    /\ Called("Truncation", "compress")
    /\ compressor.min_preserve >= 1
    /\ Len(result.msgs) = compressor.min_preserve
    /\ Len(result.msgs) < Len(messages)
    /\ Estimate(result.msgs) > max_tokens

\* The cut points below len - min_preserve whose suffix fits the budget.
FittingCuts ==
    { i \in 0..(Len(messages) - compressor.min_preserve - 1) :
        Estimate(LastN(messages, Len(messages) - i)) <= max_tokens }

\* C4: on an over-budget history the returned suffix starts at the smallest
\* index below len - min_preserve whose suffix fits the budget, and at
\* max(len - min_preserve, 0) when there is none.
C4_TruncationCutPoint ==
    (Called("Truncation", "compress") /\ OverBudget)
        => LET cut == IF FittingCuts # {}
                      THEN CHOOSE i \in FittingCuts : \A j \in FittingCuts : i <= j
                      ELSE IF Len(messages) >= compressor.min_preserve
                           THEN Len(messages) - compressor.min_preserve
                           ELSE 0
           IN  result = Ok(LastN(messages, Len(messages) - cut))

\* Truncation had several fitting cut points to choose from, the first of
\* which costs the budget exactly.
C4_Witness ==
    /\ Called("Truncation", "compress")
    /\ OverBudget
    /\ Cardinality(FittingCuts) >= 2
    /\ Estimate(result.msgs) = max_tokens

\* C5: on an over-budget history the sliding window's output begins with the
\* full head and ends with the full tail when estimate(head) + estimate(tail)
\* <= B, and is exactly the tail otherwise.
C5_SlidingWindowHeadTail ==
    (Called("SlidingWindow", "compress") /\ OverBudget)
        => IF Estimate(SWHead) + Estimate(SWTail) <= max_tokens
           THEN /\ result.status = "ok"
                /\ Len(result.msgs) >= HeadLen + SWTailLen
                /\ FirstN(result.msgs, HeadLen) = SWHead
                /\ LastN(result.msgs, SWTailLen) = SWTail
           ELSE result = Ok(SWTail)

\* The sliding window dropped a head and returned a tail that alone is over
\* budget.
C5_Witness ==
    /\ Called("SlidingWindow", "compress")
    /\ OverBudget
    /\ HeadLen >= 1
    /\ SWTailLen >= 1
    /\ Estimate(SWTail) > max_tokens
    /\ result.msgs = SWTail

\* C6: when the preserved head and tail fit the budget but no non-empty suffix
\* of the middle fits B - preserved_tokens, the sliding window keeps nothing
\* from the middle: the output is exactly head ++ tail.
C6_SlidingWindowMiddleUnaffordable ==
    (/\ Called("SlidingWindow", "compress")
     /\ OverBudget
     /\ Estimate(SWHead) + Estimate(SWTail) <= max_tokens
     /\ \A n \in 1..Len(SWMiddle) :
          Estimate(LastN(SWMiddle, n))
              > max_tokens - (Estimate(SWHead) + Estimate(SWTail)))
        => result = Ok(SWHead \o SWTail)

\* C7: a strategy configured to keep at least one tail message returns a
\* non-empty history for a non-empty history, whatever preserve_first and the
\* budget.
C7_NonEmptyResult ==
    (/\ pc = "done"
     /\ result.status = "ok"
     /\ messages # << >>
     /\ \/ compressor.kind = "Truncation" /\ compressor.min_preserve >= 1
        \/ compressor.kind = "SlidingWindow" /\ compressor.min_recent >= 1
        \/ compressor.kind = "Summarizing" /\ compressor.preserve_recent >= 1)
        => result.msgs # << >>

\* C8: compress_async on an over-budget history with no middle segment, or
\* with a middle of fewer than 100 estimated tokens, returns exactly
\* first ++ last, without a briefing and without calling the summarizer.
C8_AsyncSkipsSmallMiddle ==
    (/\ Called("Summarizing", "compress_async")
     /\ OverBudget
     /\ \/ HeadLen >= Len(messages) - SumTailLen
        \/ Estimate(SumMiddle) < 100)
        => /\ pc = "done"
           /\ result = Ok(SumFirst \o SumLast)
           /\ Briefings(result.msgs) = {}
           /\ prompts = 0

\* compress_async dropped a middle of two messages and 98 tokens although
\* first ++ last is over budget.
C8_Witness ==
    /\ Called("Summarizing", "compress_async")
    /\ OverBudget
    /\ Len(SumMiddle) = 2
    /\ Estimate(SumMiddle) = 98
    /\ Estimate(SumFirst \o SumLast) > max_tokens
    /\ result.msgs = SumFirst \o SumLast

\* C9: when the history is over budget, the middle has >= 100 estimated
\* tokens, the summarizer returns S and preserved_tokens + estimate_tokens(S)
\* <= max_tokens, compress_async returns first ++ [one User message wrapping S
\* in the briefing delimiters] ++ last, with every middle message absent.
C9_AsyncInjectsBriefing ==
    (/\ Called("Summarizing", "compress_async")
     /\ pc = "done"
     /\ OverBudget
     /\ Estimate(SumMiddle) >= 100
     /\ reply.status = "ok"
     /\ Estimate(SumFirst) + Estimate(SumLast) + estimate_tokens(reply.summary)
            <= max_tokens)
        => /\ result =
                Ok(SumFirst
                   \o << [pos |-> 0, role |-> "user", briefing |-> TRUE,
                          bytes |-> BRIEFING_HEADER_LEN + reply.summary
                                    + BRIEFING_FOOTER_LEN] >>
                   \o SumLast)
           /\ Cardinality(Briefings(result.msgs)) = 1
           /\ \A i \in 1..Len(result.msgs), k \in 1..Len(SumMiddle) :
                result.msgs[i] # SumMiddle[k]

\* compress_async injected the briefing of a non-empty summary between a kept
\* head and a kept tail, in place of a middle of 100 tokens exactly.
C9_Witness ==
    /\ Called("Summarizing", "compress_async")
    /\ pc = "done"
    /\ OverBudget
    /\ Estimate(SumMiddle) = 100
    /\ reply.status = "ok"
    /\ reply.summary > 0
    /\ HeadLen >= 1
    /\ SumTailLen >= 1
    /\ Len(result.msgs) = HeadLen + 1 + SumTailLen

C11_SummarizerFailure ==
    (pc = "done" /\ reply.status = "err")
        => /\ entry = "compress_async"
           /\ result.status = "err"
           /\ result.err.variant = "CompressionFailed"
           /\ result.err.text = << "Summarization failed: ", reply.error >>
           /\ result.msgs = << >>

\* The summarizer answered "HTTP 500" to a call that had a head and a tail to
\* fall back to.
C11_Witness ==
    /\ Called("Summarizing", "compress_async")
    /\ pc = "done"
    /\ reply.status = "err"
    /\ reply.error = "HTTP 500"
    /\ SumFirst # << >>
    /\ SumLast # << >>
    /\ result.status = "err"

\* C12: the synchronous SummarizingCompressor.compress never calls the
\* summarizer, and on an over-budget history returns exactly first ++ last,
\* whatever the size of the middle and whether or not first ++ last fits.
C12_SyncSummarizingHeadTail ==
    Called("Summarizing", "compress")
        => /\ pc = "done"
           /\ prompts = 0
           /\ reply = NoReply
           /\ OverBudget => result = Ok(SumFirst \o SumLast)

\* The synchronous compress dropped a middle of at least 100 tokens and
\* returned a first ++ last that is still over budget.
C12_Witness ==
    /\ Called("Summarizing", "compress")
    /\ OverBudget
    /\ Estimate(SumMiddle) >= 100
    /\ HeadLen >= 1
    /\ SumTailLen >= 1
    /\ Estimate(SumFirst \o SumLast) > max_tokens
    /\ result.msgs = SumFirst \o SumLast

\* C13: the three synchronous compress return Ok for every history, budget and
\* configuration; compress_async returns Err only when its summarizer call
\* failed, always CompressionFailed; EstimationFailed and InvalidStructure are
\* never produced.
C13_NoErrorOnUnmetBudget ==
    pc = "done"
        => /\ result.status \in {"ok", "err"}
           /\ entry = "compress" => result.status = "ok"
           /\ result.status = "ok" => result.err = NoError
           /\ result.status = "err"
                => /\ entry = "compress_async"
                   /\ reply.status = "err"
                   /\ result.err.variant = "CompressionFailed"
           /\ result.err.variant \notin {"EstimationFailed", "InvalidStructure"}

\* Truncation returned Ok with a history that still exceeds the budget.
C13_Witness ==
    /\ Called("Truncation", "compress")
    /\ pc = "done"
    /\ result.status = "ok"
    /\ result.msgs # << >>
    /\ Estimate(result.msgs) > max_tokens

\* C14: the returned history keeps tool call/result pairs together: it holds
\* no tool-result message whose tool-call message was removed, and no
\* tool-call message whose tool-result message was removed.
C14_ToolPairIntegrity ==
    (pc = "done" /\ result.status = "ok")
        => LET R == result.msgs
           IN  \A i \in 1..Len(R) :
                 "tool" \in DOMAIN R[i]
                     => \E j \in 1..Len(R) :
                          /\ "tool" \in DOMAIN R[j]
                          /\ R[j].tool_id = R[i].tool_id
                          /\ R[j].tool # R[i].tool

\* C15: estimate_tokens("") = 0 and, for every non-empty text s, multi-byte
\* characters included, estimate_tokens(s) = ceil(character_length(s) / 3.4)
\* = ceil(5 * character_length(s) / 17); 340 'a' characters give 100.
C15_EstimateTokensByCharacters ==
    returned.op = "estimate_tokens"
        => /\ returned.value =
                IF Len(text) = 0 THEN 0 ELSE (5 * Len(text) + 16) \div 17
           /\ text = Ascii(340) => returned.value = 100

\* C16: ContextEstimate::new gives total_tokens = system_prompt_tokens +
\* tool_definitions_tokens + messages_tokens and usage_percent =
\* floor(total_tokens * 100 / context_window) when context_window > 0, and 0
\* when context_window = 0: truncated, never rounded up, and allowed to pass 100.
C16_ContextEstimateNew ==
    "usage_percent" \in DOMAIN context
        => /\ context.total_tokens =
                context.system_prompt_tokens + context.tool_definitions_tokens
                + context.messages_tokens
           /\ context.context_window = context_window
           /\ context_window > 0
                => /\ context.usage_percent * context_window
                        <= context.total_tokens * 100
                   /\ context.total_tokens * 100
                        < (context.usage_percent + 1) * context_window
           /\ context_window = 0 => context.usage_percent = 0

\* A ContextEstimate whose usage is above 100 percent and was truncated.
C16_Witness ==
    /\ "usage_percent" \in DOMAIN context
    /\ context.system_prompt_tokens > 0
    /\ context.tool_definitions_tokens > 0
    /\ context.messages_tokens > 0
    /\ context.usage_percent > 100
    /\ context.usage_percent * context_window < context.total_tokens * 100
    /\ 2 * (context.total_tokens * 100 - context.usage_percent * context_window)
           >= context_window

SoloReturn(cfg, H, B, e, r) ==
    LET hl     == Min(cfg.preserve_first, Len(H))
        tl     == Min(cfg.preserve_recent, Len(H) - hl)
        first  == FirstN(H, hl)
        last   == LastN(H, tl)
        middle == SubSeq(H, hl + 1, Len(H) - tl)
    IN  IF Estimate(H) <= B THEN Ok(H)
        ELSE IF e = "compress" THEN Ok(first \o last)
        ELSE IF middle = << >> \/ Estimate(middle) < 100 THEN Ok(first \o last)
        ELSE IF r.status = "err"
             THEN Err(CompressionFailed(<< "Summarization failed: ", r.error >>))
        ELSE IF Estimate(first) + Estimate(last) + estimate_tokens(r.summary) <= B
             THEN Ok(first
                     \o << [pos |-> 0, role |-> "user", briefing |-> TRUE,
                            bytes |-> BRIEFING_HEADER_LEN + r.summary
                                      + BRIEFING_FOOTER_LEN] >>
                     \o last)
        ELSE Ok(first \o last)

\* C18: in every interleaving of compress / compress_async calls on one
\* SummarizingCompressor, each step belongs to one call and leaves the other
\* calls and the configuration as they were, and each finished call returns
\* what it would return alone from its own history, budget and reply.
C18_ConcurrentCallsDoNotInterfere ==
    [][ /\ compressor' = compressor
        /\ \A c, d \in Callers :
              (calls'[c] # calls[c] /\ d # c) => calls'[d] = calls[d]
        /\ \A c \in Callers :
              calls'[c].pc = "done"
                => calls'[c].result =
                     SoloReturn(compressor', calls'[c].messages,
                                calls'[c].max_tokens, calls'[c].entry,
                                calls'[c].reply) ]_vars

\* Two calls with different histories overlapped at the summarizer: one
\* started while the other was awaiting, and both returned, one a history
\* with its briefing and the other something else.
C18_Witness ==
    \E c, d \in Callers :
        /\ c # d
        /\ calls[c].pc = "done"
        /\ calls[d].pc = "done"
        /\ calls[c].entry = "compress_async"
        /\ calls[d].entry = "compress_async"
        /\ calls[c].overlapped
        /\ calls[c].reply.status = "ok"
        /\ calls[d].reply.status = "ok"
        /\ calls[c].messages # calls[d].messages
        /\ Briefings(calls[c].result.msgs) # {}
        /\ calls[d].result # calls[c].result
        /\ prompts = 2

\* C19: compress_async can be cancelled at the await of the summarizer only;
\* the cancelled call has no result and no history, the cancellation leaves
\* the compressor and the other calls alone, and a call started after it
\* returns what it would return had nothing been cancelled.
C19_CancellationLeavesNoTrace ==
    [][ /\ \A c \in Callers :
              /\ calls'[c].pc = "cancelled"
                    => /\ calls'[c].result = NoResult
                       /\ calls'[c].frame = NoFrame
                       /\ calls'[c].entry = "compress_async"
              /\ (calls'[c].pc = "cancelled" /\ calls[c].pc # "cancelled")
                    => /\ calls[c].pc = "awaiting"
                       /\ compressor' = compressor
                       /\ \A d \in Callers \ {c} : calls'[d] = calls[d]
              /\ (calls'[c].pc = "done" /\ calls'[c].epoch >= 1)
                    => calls'[c].result =
                         SoloReturn(compressor', calls'[c].messages,
                                    calls'[c].max_tokens, calls'[c].entry,
                                    calls'[c].reply) ]_vars

\* A call was cancelled while its prompt was in flight, and a call with the
\* same history and budget, started afterwards, returned the briefing.
C19_Witness ==
    \E c, d \in Callers :
        /\ c # d
        /\ calls[c].pc = "cancelled"
        /\ calls[d].pc = "done"
        /\ calls[d].epoch >= 1
        /\ calls[d].entry = "compress_async"
        /\ calls[d].messages = calls[c].messages
        /\ calls[d].max_tokens = calls[c].max_tokens
        /\ Briefings(calls[d].result.msgs) # {}

\* C20: a compressor built without explicit settings, by new() or by the
\* derived Default::default(), has the documented defaults: min_preserve = 1
\* for truncation, preserve_first = 0 and min_recent = 2 for the sliding
\* window.
C20_DocumentedDefaults ==
    /\ compressor.kind = "Truncation" => compressor.min_preserve = 1
    /\ compressor.kind = "SlidingWindow"
         => /\ compressor.preserve_first = 0
            /\ compressor.min_recent = 2

\* C21: under every interleaving of chunk deliveries, add and reset on one
\* shared counter, bytes_received() plus everything reset has returned is the
\* byte length of the Ok chunks yielded plus the explicit adds; reset returns
\* the count just before it and leaves 0; errors and the end of a stream
\* leave the counter as it was.
C21_ByteAccountingConservation ==
    /\ counter + reclaimed = delivered + added
    /\ observed.op = "reset"
         => (observed.value = observed.before /\ observed.after = 0)
    /\ observed.op \in {"err", "end"} => observed.after = observed.before
    /\ observed.op = "bytes_received"
         => (observed.value = counter /\ observed.after = observed.before)
    /\ observed.op = "chunk"
         => observed.after = observed.before + observed.value

\* Two streams delivered chunks and an error around an add and a reset that
\* returned a non-zero count; the counter holds bytes again.
C21_Witness ==
    /\ delivered = 17
    /\ added = 100
    /\ reclaimed > 0
    /\ reclaimed < delivered + added
    /\ counter > 0
    /\ \E s \in Streams : streams[s] = << >>
    /\ observed.op = "end"

\* Lengths of the non-empty suffixes of the sliding window's middle that fit
\* what the budget leaves after the head and the tail.
SWFittingSuffixes ==
    { n \in 1..Len(SWMiddle) :
        Estimate(LastN(SWMiddle, n))
            <= max_tokens - (Estimate(SWHead) + Estimate(SWTail)) }

\* C22: when the sliding window's head and tail fit the budget and some
\* non-empty suffix of the middle fits B - preserved_tokens, the output is
\* head ++ the longest such suffix ++ tail, and its estimate is <= B.
C22_SlidingWindowLongestSuffix ==
    (/\ Called("SlidingWindow", "compress")
     /\ Estimate(SWHead) + Estimate(SWTail) <= max_tokens
     /\ SWFittingSuffixes # {})
        => LET n == CHOOSE k \in SWFittingSuffixes :
                        \A j \in SWFittingSuffixes : j <= k
           IN  /\ result = Ok(SWHead \o LastN(SWMiddle, n) \o SWTail)
               /\ Estimate(result.msgs) <= max_tokens

\* The sliding window had two fitting suffixes of an over-budget middle to
\* choose from and kept the longer one before the tail.
C22_Witness ==
    /\ Called("SlidingWindow", "compress")
    /\ OverBudget
    /\ SWTailLen >= 1
    /\ Cardinality(SWFittingSuffixes) >= 2
    /\ Len(result.msgs) = HeadLen + 2 + SWTailLen
    /\ Len(result.msgs) < Len(messages)

\* C23: when the summarizer succeeds but preserved_tokens(first, last) +
\* estimate_tokens(summary) > max_tokens, compress_async returns
\* Ok(first ++ last): no briefing and no error, even when first ++ last is
\* itself over budget.
C23_AsyncFitCheckFallback ==
    (/\ Called("Summarizing", "compress_async")
     /\ pc = "done"
     /\ reply.status = "ok"
     /\ Estimate(SumFirst) + Estimate(SumLast) + estimate_tokens(reply.summary)
            > max_tokens)
        => /\ result = Ok(SumFirst \o SumLast)
           /\ Briefings(result.msgs) = {}

\* The summary did not fit next to a head and a tail that are over budget by
\* themselves, and compress_async returned them.
C23_Witness ==
    /\ Called("Summarizing", "compress_async")
    /\ pc = "done"
    /\ reply.status = "ok"
    /\ HeadLen >= 1
    /\ SumTailLen >= 1
    /\ Estimate(SumFirst \o SumLast) > max_tokens
    /\ result = Ok(SumFirst \o SumLast)

\* C24: a history returned by TruncationCompressor.compress that is over
\* budget has exactly min(min_preserve, len(H)) messages; a returned suffix
\* longer than that fits the budget.
C24_TruncationOverflowAtPreserveBound ==
    (/\ Called("Truncation", "compress")
     /\ Estimate(result.msgs) > max_tokens)
        => Len(result.msgs) = Min(compressor.min_preserve, Len(messages))

\* Truncation cut a history down to its min_preserve last messages, which
\* are still over budget.
C24_Witness ==
    /\ Called("Truncation", "compress")
    /\ compressor.min_preserve = 2
    /\ Len(messages) > 2
    /\ Len(result.msgs) = 2
    /\ Estimate(result.msgs) > max_tokens

\* C25: rendering a tool result's text or a tool call's arguments never
\* panics, multi-byte characters included, and gives the text unchanged when
\* it has at most 2000 (arguments: 500) characters and its first 2000 (500)
\* characters followed by the truncation marker when it is longer.
C25_TranscriptRenderingNeverFails ==
    returned.op \in {"tool_result", "tool_call"}
        => /\ ~returned.value.panicked
           /\ IF Len(text) > returned.arg
              THEN /\ returned.value.kept = SubSeq(text, 1, returned.arg)
                   /\ returned.value.marker # ""
              ELSE /\ returned.value.kept = text
                   /\ returned.value.marker = ""

\* C26: whenever compress_async returns a history that contains the briefing
\* message, the estimate of that history, the briefing counted with its
\* delimiter text and its per-message overhead, is <= max_tokens.
C26_InjectedResultWithinBudget ==
    (/\ Called("Summarizing", "compress_async")
     /\ pc = "done"
     /\ result.status = "ok"
     /\ Briefings(result.msgs) # {})
        => Estimate(result.msgs) <= max_tokens

\* C27: for every strategy and entry point, compress_async's briefing path
\* included, a returned history has no more messages than the history handed
\* in and no larger an estimate.
C27_CompressionNeverGrows ==
    (pc = "done" /\ result.status = "ok")
        => /\ Len(result.msgs) <= Len(messages)
           /\ Estimate(result.msgs) <= Estimate(messages)

\* C28: for each synchronous strategy, compressing the returned history
\* again with the same budget returns it unchanged:
\* compress(compress(H, B), B) = compress(H, B).
C28_SynchronousCompressionIdempotent ==
    pc = "again" => result = Ok(messages)

====
